---- MODULE Spec2Model ----
(***************************************************************************)
(* StelSocial (src/app.py): a Flask application over a relational store.   *)
(* The state is the store's tables, the requests in flight (each handler   *)
(* is cut at its database round trips, so that two requests interleave     *)
(* where the code lets them) and the last response sent.                   *)
(*                                                                         *)
(* The User table is fixed: the model starts from a store in which         *)
(* NumUsers accounts are registered, the user with id u having the         *)
(* username u; register, login and edit_profile, which write only that     *)
(* table and the session, are left out.  The session is a cookie the       *)
(* client sends: every request carries the user id of its session, or      *)
(* None.                                                                   *)
(***************************************************************************)
EXTENDS Integers, FiniteSets, Sequences, TLC

\* ---------------------------------------------------------------- bounds
\* registered users, requests in flight at once, requests received in a run,
\* and of these the requests to the conversation handler
NumUsers == 2
MaxInFlight == 2
MaxReqs == 3
MaxConversationReqs == 2
\* posts created in a run, and ticks of the store's clock
MaxPostId == 2
MaxClock == 1

\* ------------------------------------------------------ program constants
per_page == 10

\* ----------------------------------------------------------------- inputs
None == 0
Users == 1..NumUsers
Sessions == Users \cup {None}
\* the user ids and usernames of a URL: the registered ones and one nobody has
UserIds == 1..(NumUsers + 1)
PostIds == 1..MaxPostId
Pages == 1..2
Slots == 1..MaxInFlight
Methods == {"GET", "POST"}
PostForms == {[image_url |-> "a.png", caption |-> ""],
              [image_url |-> "b.png", caption |-> "cat"]}
\* form texts: the empty string, a blank one, a word
Texts == {<<>>, <<" ">>, <<"h">>}

VARIABLES
    posts,          \* Post rows
    comments,       \* Comment rows
    likes,          \* Like rows
    follows,        \* Follow rows
    conversations,  \* Conversation rows
    messages,       \* Message rows
    nextId,         \* the autoincrement counter of each table with an id
    clock,          \* db.func.now()
    fkEnforced,     \* whether the store behind DATABASE_URL (line 12) enforces
                    \* foreign keys: the code leaves the store open
    reqs,           \* the requests in flight, by worker slot
    nreq,           \* requests received so far
    resp            \* the last response sent, with the session and the argument
                    \* of its request

store == <<posts, comments, likes, follows, conversations, messages, nextId>>
vars == <<posts, comments, likes, follows, conversations, messages, nextId,
          clock, fkEnforced, reqs, nreq, resp>>

Idle == [kind |-> "idle", method |-> "GET", uid |-> None, target |-> 0,
         text |-> <<>>, pc |-> "idle", found |-> FALSE, ids |-> {}, ids2 |-> {}]

NoResp == [kind |-> "none", uid |-> None, target |-> 0, status |-> "none", items |-> <<>>]

Init ==
    /\ posts = {}
    /\ comments = {}
    /\ likes = {}
    /\ follows = {}
    /\ conversations = {}
    /\ messages = {}
    /\ nextId = [post |-> 1, comment |-> 1, like |-> 1, conversation |-> 1, message |-> 1]
    /\ clock = 0
    /\ fkEnforced \in BOOLEAN
    /\ reqs = [s \in Slots |-> Idle]
    /\ nreq = 0
    /\ resp = NoResp

\* ------------------------------------------------------- request plumbing
FreeSlots == {s \in Slots : reqs[s].kind = "idle"}
FreeSlot == CHOOSE s \in FreeSlots : \A t \in FreeSlots : s <= t

\* a request arrives, while the budget of requests is not spent
Arrives == nreq < MaxReqs /\ nreq' = nreq + 1

\* the request ends in the step that received it
Reply(kind, uid, target, status, items) ==
    /\ resp' = [kind |-> kind, uid |-> uid, target |-> target, status |-> status,
                items |-> items]
    /\ UNCHANGED reqs

\* the request stays in flight: it takes a worker slot
Hold(kind, method, uid, target, text, pc, found, ids) ==
    /\ FreeSlots # {}
    /\ reqs' = [reqs EXCEPT ![FreeSlot] =
                   [kind |-> kind, method |-> method, uid |-> uid, target |-> target,
                    text |-> text, pc |-> pc, found |-> found, ids |-> ids,
                    ids2 |-> {}]]
    /\ UNCHANGED resp

\* the request in slot s ends with a response
Finish(s, status) ==
    /\ resp' = [kind |-> reqs[s].kind, uid |-> reqs[s].uid, target |-> reqs[s].target,
                status |-> status, items |-> <<>>]
    /\ reqs' = [reqs EXCEPT ![s] = Idle]

\* Post.query.get(post_id)
PostExists(post_id) == \E p \in posts : p.id = post_id
PostRow(post_id) == CHOOSE p \in posts : p.id = post_id

\* ------------------------------------------------------------------ clock
Tick ==
    /\ clock < MaxClock
    /\ clock' = clock + 1
    /\ UNCHANGED <<store, fkEnforced, reqs, nreq, resp>>

\* ------------------------------------------------------------ create_post
\* lines 182-194
create_post(uid, method, form) ==
    /\ Arrives
    /\ IF uid = None
       THEN /\ Reply("create_post", uid, 0, "login", <<>>)
            /\ UNCHANGED store
       ELSE IF method = "GET"
       THEN /\ Reply("create_post", uid, 0, "form", <<>>)
            /\ UNCHANGED store
       ELSE /\ nextId.post <= MaxPostId
            /\ posts' = posts \cup {[id |-> nextId.post, image_url |-> form.image_url,
                                     caption |-> form.caption, user_id |-> uid,
                                     created_at |-> clock]}
            /\ nextId' = [nextId EXCEPT !.post = @ + 1]
            /\ Reply("create_post", uid, nextId.post, "created", <<>>)
            /\ UNCHANGED <<comments, likes, follows, conversations, messages>>
    /\ UNCHANGED <<clock, fkEnforced>>

\* -------------------------------------------------------------- edit_post
\* mutant: the author test is left out
is_author_unchecked(post, uid) == TRUE

\* the author tests of lines 259 and 277
is_author(post, uid) == post.user_id = uid

\* lines 255-261 and, for a GET, 269: the session, the post, its author
edit_post_load(uid, method, post_id) ==
    /\ Arrives
    /\ IF uid = None
       THEN Reply("edit_post", uid, post_id, "login", <<>>)
       ELSE IF ~PostExists(post_id)
       THEN Reply("edit_post", uid, post_id, "not_found", <<>>)
       ELSE IF ~is_author(PostRow(post_id), uid)
       THEN Reply("edit_post", uid, post_id, "forbidden", <<>>)
       ELSE IF method = "GET"
       THEN Reply("edit_post", uid, post_id, "form", <<>>)
       ELSE Hold("edit_post", method, uid, post_id, <<>>, "authorized", TRUE, {})
    /\ UNCHANGED <<store, clock, fkEnforced>>

\* lines 264-268: the form is read, and the loaded row updated.  When the row is
\* gone the ORM raises StaleDataError, unless the form repeats what was loaded
\* and no UPDATE is sent
edit_post_commit(s, form) ==
    /\ reqs[s].kind = "edit_post" /\ reqs[s].pc = "authorized"
    /\ IF PostExists(reqs[s].target)
       THEN /\ posts' = {IF p.id = reqs[s].target
                         THEN [p EXCEPT !.image_url = form.image_url,
                                        !.caption = form.caption]
                         ELSE p : p \in posts}
            /\ Finish(s, "updated")
       ELSE /\ UNCHANGED posts
            /\ \E status \in {"StaleDataError", "updated"} : Finish(s, status)
    /\ UNCHANGED <<comments, likes, follows, conversations, messages, nextId,
                   clock, fkEnforced, nreq>>

\* ------------------------------------------------------------ delete_post
\* lines 273-279: the session, the post, its author
delete_post_load(uid, post_id) ==
    /\ Arrives
    /\ IF uid = None
       THEN Reply("delete_post", uid, post_id, "login", <<>>)
       ELSE IF ~PostExists(post_id)
       THEN Reply("delete_post", uid, post_id, "not_found", <<>>)
       ELSE IF ~is_author(PostRow(post_id), uid)
       THEN Reply("delete_post", uid, post_id, "forbidden", <<>>)
       ELSE Hold("delete_post", "POST", uid, post_id, <<>>, "authorized", TRUE, {})
    /\ UNCHANGED <<store, clock, fkEnforced>>

\* line 281: session.delete(post) walks the delete cascades of Post.comments and
\* Post.likes (lines 78-79), which loads both collections
delete_post_cascade(s) ==
    /\ reqs[s].kind = "delete_post" /\ reqs[s].pc = "authorized"
    /\ reqs' = [reqs EXCEPT ![s].pc = "cascaded",
                            ![s].ids = {c.id : c \in {x \in comments : x.post_id = reqs[s].target}},
                            ![s].ids2 = {l.id : l \in {x \in likes : x.post_id = reqs[s].target}}]
    /\ UNCHANGED <<store, clock, fkEnforced, nreq, resp>>

\* a DELETE of the post is refused by a store that enforces the foreign keys of
\* lines 88 and 98 while a row still references the post
PostDeleteOk(cs, ls, post_id) ==
    fkEnforced => /\ \A c \in cs : c.post_id # post_id
                  /\ \A l \in ls : l.post_id # post_id

\* lines 282-284: the flush deletes the loaded comments and likes, then the post,
\* in one transaction
delete_post_commit(s) ==
    /\ reqs[s].kind = "delete_post" /\ reqs[s].pc = "cascaded"
    /\ LET cs == {c \in comments : c.id \notin reqs[s].ids}
           ls == {l \in likes : l.id \notin reqs[s].ids2}
       IN IF PostDeleteOk(cs, ls, reqs[s].target)
          THEN /\ comments' = cs
               /\ likes' = ls
               /\ posts' = {p \in posts : p.id # reqs[s].target}
               /\ Finish(s, "deleted")
          ELSE /\ UNCHANGED <<posts, comments, likes>>
               /\ Finish(s, "ForeignKeyViolation")
    /\ UNCHANGED <<follows, conversations, messages, nextId, clock, fkEnforced, nreq>>

\* ------------------------------------------------------------ add_comment
\* lines 288-296: the session, the post, the text
add_comment_load(uid, post_id, comment_text) ==
    /\ Arrives
    /\ IF uid = None
       THEN Reply("add_comment", uid, post_id, "login", <<>>)
       ELSE IF ~PostExists(post_id)
       THEN Reply("add_comment", uid, post_id, "not_found", <<>>)
       ELSE IF Len(comment_text) = 0
       THEN Reply("add_comment", uid, post_id, "empty_comment", <<>>)
       ELSE Hold("add_comment", "POST", uid, post_id, comment_text, "validated",
                 TRUE, {})
    /\ UNCHANGED <<store, clock, fkEnforced>>

\* an INSERT of a row that references a post is refused by a store that enforces
\* foreign keys when the post is gone
ChildInsertOk(post_id) == fkEnforced => PostExists(post_id)

\* lines 298-302
add_comment_commit(s) ==
    /\ reqs[s].kind = "add_comment" /\ reqs[s].pc = "validated"
    /\ IF ChildInsertOk(reqs[s].target)
       THEN /\ comments' = comments \cup {[id |-> nextId.comment, text |-> reqs[s].text,
                                           user_id |-> reqs[s].uid,
                                           post_id |-> reqs[s].target]}
            /\ nextId' = [nextId EXCEPT !.comment = @ + 1]
            /\ Finish(s, "commented")
       ELSE /\ UNCHANGED <<comments, nextId>>
            /\ Finish(s, "ForeignKeyViolation")
    /\ UNCHANGED <<posts, likes, follows, conversations, messages, clock, fkEnforced, nreq>>

\* -------------------------------------------------------------- like_post
\* lines 306-311: the session and the post
like_post_load(uid, post_id) ==
    /\ Arrives
    /\ IF uid = None
       THEN Reply("like_post", uid, post_id, "login", <<>>)
       ELSE IF ~PostExists(post_id)
       THEN Reply("like_post", uid, post_id, "not_found", <<>>)
       ELSE Hold("like_post", "POST", uid, post_id, <<>>, "loaded", FALSE, {})
    /\ UNCHANGED <<store, clock, fkEnforced>>

\* line 313: existing_like
like_post_query(s) ==
    /\ reqs[s].kind = "like_post" /\ reqs[s].pc = "loaded"
    /\ LET existing == {l \in likes : l.user_id = reqs[s].uid /\ l.post_id = reqs[s].target}
       IN IF existing = {}
          THEN reqs' = [reqs EXCEPT ![s].pc = "queried", ![s].found = FALSE]
          ELSE \E l \in existing :
                  reqs' = [reqs EXCEPT ![s].pc = "queried", ![s].found = TRUE,
                                       ![s].ids = {l.id}]
    /\ UNCHANGED <<store, clock, fkEnforced, nreq, resp>>

\* mutant: the constraint is not declared
user_post_uc_missing(rows, user_id, post_id) == TRUE

\* the UniqueConstraint _user_post_uc of line 100
user_post_uc(rows, user_id, post_id) ==
    \A l \in rows : ~(l.user_id = user_id /\ l.post_id = post_id)

\* lines 314-324
like_post_commit(s) ==
    /\ reqs[s].kind = "like_post" /\ reqs[s].pc = "queried"
    /\ IF reqs[s].found
       THEN /\ likes' = {l \in likes : l.id \notin reqs[s].ids}
            /\ UNCHANGED nextId
            /\ Finish(s, "unliked")
       ELSE IF ~user_post_uc(likes, reqs[s].uid, reqs[s].target)
       THEN /\ UNCHANGED <<likes, nextId>>
            /\ Finish(s, "UniqueViolation")
       ELSE IF ~ChildInsertOk(reqs[s].target)
       THEN /\ UNCHANGED <<likes, nextId>>
            /\ Finish(s, "ForeignKeyViolation")
       ELSE /\ likes' = likes \cup {[id |-> nextId.like, user_id |-> reqs[s].uid,
                                     post_id |-> reqs[s].target]}
            /\ nextId' = [nextId EXCEPT !.like = @ + 1]
            /\ Finish(s, "liked")
    /\ UNCHANGED <<posts, comments, follows, conversations, messages, clock, fkEnforced, nreq>>

\* ------------------------------------------------- follow_user / unfollow
\* mutant: the test never finds the edge
is_following_never(rows, follower_id, followed_id) == FALSE

\* User.is_following, lines 53-54
is_following(rows, follower_id, followed_id) ==
    \E f \in rows : f.follower_id = follower_id /\ f.followed_id = followed_id

\* lines 204-213 and User.follow's test, line 44
follow_user_load(uid, username) ==
    /\ Arrives
    /\ IF uid = None
       THEN Reply("follow_user", uid, username, "login", <<>>)
       ELSE IF username \notin Users
       THEN Reply("follow_user", uid, username, "not_found", <<>>)
       ELSE IF username = uid
       THEN Reply("follow_user", uid, username, "self_follow", <<>>)
       ELSE Hold("follow_user", "POST", uid, username, <<>>, "checked",
                 is_following(follows, uid, username), {})
    /\ UNCHANGED <<store, clock, fkEnforced>>

\* the composite primary key of Follow, lines 106-107
follow_pk(rows, follower_id, followed_id) ==
    \A f \in rows : ~(f.follower_id = follower_id /\ f.followed_id = followed_id)

\* lines 45-46 and 214-216
follow_user_commit(s) ==
    /\ reqs[s].kind = "follow_user" /\ reqs[s].pc = "checked"
    /\ IF reqs[s].found
       THEN /\ UNCHANGED follows
            /\ Finish(s, "following")
       ELSE IF ~follow_pk(follows, reqs[s].uid, reqs[s].target)
       THEN /\ UNCHANGED follows
            /\ Finish(s, "UniqueViolation")
       ELSE /\ follows' = follows \cup {[follower_id |-> reqs[s].uid,
                                         followed_id |-> reqs[s].target,
                                         timestamp |-> clock]}
            /\ Finish(s, "following")
    /\ UNCHANGED <<posts, comments, likes, conversations, messages, nextId, clock,
                   fkEnforced, nreq>>

\* lines 220-229 and User.unfollow's query, line 49
unfollow_user_load(uid, username) ==
    /\ Arrives
    /\ IF uid = None
       THEN Reply("unfollow_user", uid, username, "login", <<>>)
       ELSE IF username \notin Users
       THEN Reply("unfollow_user", uid, username, "not_found", <<>>)
       ELSE IF username = uid
       THEN Reply("unfollow_user", uid, username, "self_unfollow", <<>>)
       ELSE Hold("unfollow_user", "POST", uid, username, <<>>, "queried",
                 is_following(follows, uid, username), {})
    /\ UNCHANGED <<store, clock, fkEnforced>>

\* lines 50-51 and 230-232: the DELETE of the row found, by its primary key
unfollow_user_commit(s) ==
    /\ reqs[s].kind = "unfollow_user" /\ reqs[s].pc = "queried"
    /\ IF reqs[s].found
       THEN follows' = {f \in follows : ~(f.follower_id = reqs[s].uid
                                            /\ f.followed_id = reqs[s].target)}
       ELSE UNCHANGED follows
    /\ Finish(s, "unfollowed")
    /\ UNCHANGED <<posts, comments, likes, conversations, messages, nextId, clock,
                   fkEnforced, nreq>>

\* ------------------------------------------------------------------- feed
\* User.get_followed_posts, lines 56-61: the posts of the users followed,
\* united with the user's own
get_followed_posts(uid) ==
    {p \in posts : \E f \in follows : f.followed_id = p.user_id /\ f.follower_id = uid}
        \cup {p \in posts : p.user_id = uid}

\* order_by(Post.created_at.desc()): every order of the rows that the timestamps
\* allow (rows of one timestamp come in an order the store chooses)
order_by_created_at_desc(rows) ==
    {o \in [1..Cardinality(rows) -> rows] :
        /\ \A i, j \in 1..Cardinality(rows) : i # j => o[i] # o[j]
        /\ \A i, j \in 1..Cardinality(rows) : i < j => o[i].created_at >= o[j].created_at}

\* paginate(page, per_page, error_out=False)
paginate(ordered, page) ==
    [i \in 1..(IF Len(ordered) - (page - 1) * per_page < 0 THEN 0
               ELSE IF Len(ordered) - (page - 1) * per_page > per_page THEN per_page
               ELSE Len(ordered) - (page - 1) * per_page)
        |-> ordered[(page - 1) * per_page + i].id]

\* the query of the feed page, line 137
index_query == posts

\* lines 133-139
index(uid, page) ==
    /\ Arrives
    /\ IF uid = None
       THEN Reply("index", uid, page, "login", <<>>)
       ELSE \E ordered \in order_by_created_at_desc(index_query) :
               Reply("index", uid, page, "page", paginate(ordered, page))
    /\ UNCHANGED <<store, clock, fkEnforced>>

\* the handlers that only read: profile (196-200), search (343-356),
\* messages (358-377), cat_fact (327-341), logout (173-178)
ReadOnly == {"profile", "search", "messages", "cat_fact", "logout"}
read_only(kind, uid) ==
    /\ Arrives
    /\ IF kind \in {"messages", "cat_fact"} /\ uid = None
       THEN Reply(kind, uid, 0, "login", <<>>)
       ELSE Reply(kind, uid, 0, "page", <<>>)
    /\ UNCHANGED <<store, clock, fkEnforced>>

\* ----------------------------------------------------------- conversation
\* mutant: the filter forgets the current user
conversation_filter_any(rows, current_user_id, other_user_id) ==
    {c \in rows : c.user1_id = other_user_id \/ c.user2_id = other_user_id}

\* the filter of lines 389-392
conversation_filter(rows, current_user_id, other_user_id) ==
    {c \in rows : \/ c.user1_id = current_user_id /\ c.user2_id = other_user_id
                  \/ c.user1_id = other_user_id /\ c.user2_id = current_user_id}

\* lines 381-392: the session, the other user, the lookup; .first() takes any row
\* of the filter
conversation_load(uid, method, other_user_id) ==
    /\ Arrives
    /\ nreq < MaxConversationReqs
    /\ IF uid = None
       THEN Reply("conversation", uid, other_user_id, "login", <<>>)
       ELSE IF other_user_id \notin Users
       THEN Reply("conversation", uid, other_user_id, "not_found", <<>>)
       ELSE IF conversation_filter(conversations, uid, other_user_id) = {}
       THEN Hold("conversation", method, uid, other_user_id, <<>>, "creating",
                 FALSE, {})
       ELSE \E c \in conversation_filter(conversations, uid, other_user_id) :
               Hold("conversation", method, uid, other_user_id, <<>>, "found",
                    TRUE, {c.id})
    /\ UNCHANGED <<store, clock, fkEnforced>>

\* the UniqueConstraint _user1_user2_uc of line 115
user1_user2_uc(rows, user1_id, user2_id) ==
    \A c \in rows : ~(c.user1_id = user1_id /\ c.user2_id = user2_id)

\* lines 394-397
conversation_create(s) ==
    /\ reqs[s].kind = "conversation" /\ reqs[s].pc = "creating"
    /\ IF user1_user2_uc(conversations, reqs[s].uid, reqs[s].target)
       THEN /\ conversations' = conversations \cup
                   {[id |-> nextId.conversation, user1_id |-> reqs[s].uid,
                     user2_id |-> reqs[s].target]}
            /\ nextId' = [nextId EXCEPT !.conversation = @ + 1]
            /\ reqs' = [reqs EXCEPT ![s].pc = "found", ![s].ids = {nextId.conversation}]
            /\ UNCHANGED resp
       ELSE /\ UNCHANGED <<conversations, nextId>>
            /\ Finish(s, "UniqueViolation")
    /\ UNCHANGED <<posts, comments, likes, follows, messages, clock, fkEnforced, nreq>>

\* the Message row of line 404
new_message(id, conversation_id, current_user_id, message_text) ==
    [id |-> id, conversation_id |-> conversation_id, sender_id |-> current_user_id,
     text |-> message_text]

\* lines 399-415; the form's message_text is read at line 400
conversation_finish(s, message_text) ==
    /\ reqs[s].kind = "conversation" /\ reqs[s].pc = "found"
    /\ IF reqs[s].method = "POST" /\ Len(message_text) # 0
       THEN /\ \E cid \in reqs[s].ids :
                  messages' = messages \cup
                      {new_message(nextId.message, cid, reqs[s].uid, message_text)}
            /\ nextId' = [nextId EXCEPT !.message = @ + 1]
            /\ Finish(s, "sent")
       ELSE /\ UNCHANGED <<messages, nextId>>
            /\ Finish(s, IF reqs[s].method = "POST" THEN "empty_message" ELSE "page")
    /\ UNCHANGED <<posts, comments, likes, follows, conversations, clock, fkEnforced, nreq>>

\* --------------------------------------------------------- specifications
\* The handlers fall into three groups that write disjoint tables: posts,
\* comments and likes; follows (with the feed, which reads posts); conversations
\* and messages.  Next is the whole application; each group is also a
\* specification of its own.
ContentNext ==
    \/ \E uid \in Sessions, m \in Methods, f \in PostForms : create_post(uid, m, f)
    \/ \E uid \in Sessions, m \in Methods, p \in PostIds : edit_post_load(uid, m, p)
    \/ \E s \in Slots, f \in PostForms : edit_post_commit(s, f)
    \/ \E uid \in Sessions, p \in PostIds : delete_post_load(uid, p)
    \/ \E s \in Slots : delete_post_cascade(s)
    \/ \E s \in Slots : delete_post_commit(s)
    \/ \E uid \in Sessions, p \in PostIds, t \in Texts : add_comment_load(uid, p, t)
    \/ \E s \in Slots : add_comment_commit(s)
    \/ \E uid \in Sessions, p \in PostIds : like_post_load(uid, p)
    \/ \E s \in Slots : like_post_query(s)
    \/ \E s \in Slots : like_post_commit(s)

GraphNext ==
    \/ Tick
    \/ \E uid \in Sessions, m \in Methods, f \in PostForms : create_post(uid, m, f)
    \/ \E uid \in Sessions, u \in UserIds : follow_user_load(uid, u)
    \/ \E s \in Slots : follow_user_commit(s)
    \/ \E uid \in Sessions, u \in UserIds : unfollow_user_load(uid, u)
    \/ \E s \in Slots : unfollow_user_commit(s)
    \/ \E uid \in Sessions, page \in Pages : index(uid, page)
    \/ \E k \in ReadOnly, uid \in Sessions : read_only(k, uid)

MessagingNext ==
    \/ \E uid \in Sessions, m \in Methods, o \in UserIds : conversation_load(uid, m, o)
    \/ \E s \in Slots : conversation_create(s)
    \/ \E s \in Slots, t \in Texts : conversation_finish(s, t)

Next ==
    \/ ContentNext
    \/ GraphNext
    \/ MessagingNext

\* the whole application
Spec == Init /\ [][Next]_vars
\* the handlers of posts, comments and likes
ContentSpec == Init /\ [][ContentNext]_vars
\* the handlers of the follow graph, the feed and the pages that only read
GraphSpec == Init /\ [][GraphNext]_vars
\* follow and unfollow requests served one after the other
SequentialFollowNext ==
    \/ Tick
    \/ \E uid \in Sessions, u \in UserIds : FreeSlots = Slots /\ follow_user_load(uid, u)
    \/ \E s \in Slots : follow_user_commit(s)
    \/ \E uid \in Sessions, u \in UserIds : FreeSlots = Slots /\ unfollow_user_load(uid, u)
    \/ \E s \in Slots : unfollow_user_commit(s)
SequentialFollowSpec == Init /\ [][SequentialFollowNext]_vars
\* the handlers of conversations and messages
MessagingSpec == Init /\ [][MessagingNext]_vars
\* ================================================================= claims
\* what a step is, read off the two states
\* a request was received and answered in this step
Replied == nreq' # nreq /\ reqs' = reqs
\* the request of slot s was answered in this step
Finished(s) == reqs[s].kind # "idle" /\ reqs'[s] = Idle
\* the request of slot s took a step
Stepped(s) == reqs[s].kind # "idle" /\ reqs'[s] # reqs[s]
tables == <<posts, comments, likes, follows, conversations, messages>>

\* ---- C1 (ContentSpec)
LikeRows(user_id, post_id) == {l \in likes : l.user_id = user_id /\ l.post_id = post_id}

\* C1: in every reachable state, whatever the interleaving of the like_post
\* requests, the store holds at most one Like row for a user and a post.
C1_AtMostOneLikePerUserAndPost ==
    \A u \in Users, p \in PostIds : Cardinality(LikeRows(u, p)) <= 1

\* two like_post requests of one user on one post raced: the second insert was
\* refused, and the one row is there
C1_Witness ==
    /\ resp.kind = "like_post" /\ resp.status = "UniqueViolation"
    /\ Cardinality(LikeRows(resp.uid, resp.target)) = 1

\* ---- C2 (MessagingSpec)
\* C2: in every reachable state there is at most one Conversation row for an
\* unordered pair of users.
C2_AtMostOneConversationPerPair ==
    \A a, b \in Users :
        Cardinality({c \in conversations : \/ c.user1_id = a /\ c.user2_id = b
                                           \/ c.user1_id = b /\ c.user2_id = a}) <= 1

\* ---- C3 (ContentSpec)
\* C3: no request ends in an uncaught uniqueness conflict of the store.
C3_NoUncaughtConflict == resp.status # "UniqueViolation"

\* ---- C4 (GraphSpec)
Range(seq) == {seq[i] : i \in 1..Len(seq)}

\* C4: the feed served to a logged-in user (its first page, which holds every
\* post while there are at most per_page of them) consists of exactly the posts
\* of the user and of the users followed, each once, newest first.
C4_FeedIsOwnAndFollowedPosts ==
    [][(Replied /\ resp'.kind = "index" /\ resp'.status = "page" /\ resp'.target = 1)
        => /\ Range(resp'.items) = {p.id : p \in get_followed_posts(resp'.uid)}
           /\ Len(resp'.items) = Cardinality(get_followed_posts(resp'.uid))
           /\ \A i, j \in 1..Len(resp'.items) :
                 i < j => PostRow(resp'.items[i]).created_at
                              >= PostRow(resp'.items[j]).created_at]_vars

\* ---- C5 (ContentSpec)
\* C5: in every reachable state every Comment and every Like references a post
\* that exists, also when add_comment and like_post interleave with delete_post.
C5_NoRowOfADeletedPost ==
    /\ \A c \in comments : PostExists(c.post_id)
    /\ \A l \in likes : PostExists(l.post_id)

\* ---- C6 (ContentSpec)
Rejections == {"login", "forbidden", "not_found"}
EditOrDelete == {"edit_post", "delete_post"}

\* a post row is changed or removed only by a step of an edit_post or
\* delete_post request of its author
OnlyTheAuthorChanges ==
    \A p \in posts :
        p \notin posts' =>
            \E s \in Slots : /\ Finished(s)
                             /\ reqs[s].kind \in EditOrDelete
                             /\ reqs[s].target = p.id
                             /\ reqs[s].uid = p.user_id

\* a request without a session is sent to the login page, one of another user
\* than the author is forbidden, and a rejected request changes no row
RejectedAsClaimed ==
    (Replied /\ resp'.kind \in EditOrDelete) =>
        /\ resp'.uid = None => resp'.status = "login"
        /\ (resp'.uid # None /\ PostExists(resp'.target)
                /\ PostRow(resp'.target).user_id # resp'.uid)
              => resp'.status = "forbidden"
        /\ resp'.status \in Rejections => tables' = tables

\* C6 as stated: besides, every request that names a post id that does not
\* exist is answered NotFound.
C6_Original ==
    [][/\ OnlyTheAuthorChanges
       /\ RejectedAsClaimed
       /\ (Replied /\ resp'.kind \in EditOrDelete /\ ~PostExists(resp'.target))
             => resp'.status = "not_found"]_vars

\* C6 as amended: a request of a logged-in session that names a post id that
\* does not exist is answered NotFound (without a session the answer is the
\* login page, whether or not the post exists); the rest as stated.
C6_EditAndDeleteAreTheAuthors ==
    [][/\ OnlyTheAuthorChanges
       /\ RejectedAsClaimed
       /\ (Replied /\ resp'.kind \in EditOrDelete /\ resp'.uid # None
                /\ ~PostExists(resp'.target))
             => resp'.status = "not_found"]_vars

\* a logged-in user who is not the author was refused, the post has a comment,
\* and post and comment are there
C6_Witness ==
    /\ resp.kind \in EditOrDelete /\ resp.status = "forbidden"
    /\ PostExists(resp.target) /\ PostRow(resp.target).user_id # resp.uid
    /\ \E c \in comments : c.post_id = resp.target

\* ---- C7 (GraphSpec)
EdgeRows(a, b) == {f \in follows : f.follower_id = a /\ f.followed_id = b}
EdgeRowsAfter(a, b) == {f \in follows' : f.follower_id = a /\ f.followed_id = b}

\* C7: when the requests run one after the other, no edge (u, u) ever exists and
\* follow(u, u) is rejected; follow(a, b) with a # b leaves exactly one edge
\* (a, b), and changes nothing when the edge was there; unfollow(a, b) with no
\* edge (a, b) changes nothing.
C7_FollowAndUnfollow ==
    [][/\ \A f \in follows' : f.follower_id # f.followed_id
       /\ (Replied /\ resp'.kind = "follow_user" /\ resp'.uid = resp'.target)
             => resp'.status = "self_follow" /\ follows' = follows
       /\ \A s \in Slots :
             (Finished(s) /\ reqs[s].kind = "follow_user")
               => /\ resp'.status = "following"
                  /\ Cardinality(EdgeRowsAfter(reqs[s].uid, reqs[s].target)) = 1
                  /\ EdgeRows(reqs[s].uid, reqs[s].target) # {} => follows' = follows
       /\ \A s \in Slots :
             (Finished(s) /\ reqs[s].kind = "unfollow_user"
                 /\ EdgeRows(reqs[s].uid, reqs[s].target) = {})
               => follows' = follows /\ resp'.status = "unfollowed"]_vars

\* a second follow(a, b) has found the edge the first one made, and is about
\* to commit
C7_Witness ==
    \E s \in Slots : /\ reqs[s].kind = "follow_user" /\ reqs[s].found
                     /\ Cardinality(EdgeRows(reqs[s].uid, reqs[s].target)) = 1

\* ---- C8 (MessagingSpec)
IsBlank(text) == \A i \in 1..Len(text) : text[i] = " "

\* C8: a send-message request whose text is empty or only whitespace appends no
\* Message row: no step adds a row whose text is blank.
C8_BlankMessageIsRejected ==
    [][\A m \in messages' : IsBlank(m.text) => m \in messages]_vars

\* ---- C9 (MessagingSpec)
\* C9: no GET request changes a row of the store.
C9_GetChangesNothing ==
    [][\A s \in Slots : (Stepped(s) /\ reqs[s].method = "GET") => tables' = tables]_vars

\* ---- C10 (MessagingSpec)
\* C10: in every reachable state the sender of every Message row is one of the
\* two participants of the conversation the message belongs to.
C10_SenderIsAParticipant ==
    \A m \in messages :
        \E c \in conversations : /\ c.id = m.conversation_id
                                 /\ m.sender_id \in {c.user1_id, c.user2_id}

\* a message sent by the user the other one opened the conversation with
C10_Witness ==
    \E m \in messages, c \in conversations :
        /\ c.id = m.conversation_id
        /\ c.user1_id # c.user2_id
        /\ m.sender_id = c.user2_id
====
